---- MODULE Spec2Model ----
(***************************************************************************)
(* wikicrunch: the dump traversal loop of main.rs (main, talk_to_server)   *)
(* and the markup filter of parsing.rs (iterate_element, xhtml_to_plain).  *)
(*                                                                         *)
(* Rust Strings are TLA+ strings; Option<T> is <<>> (None) or <<v>>        *)
(* (Some(v)); Vec<T> is a sequence.                                        *)
(***************************************************************************)
EXTENDS Integers, Sequences, FiniteSets, TLC

VARIABLES
    opts,           \* cli.rs Opts: title, and_after, xhtml_output, no_plain_output
    source,         \* the event source: "prolog", "root" (root element open),
                    \* "epilog", "closed"
    nesting,        \* the event source: names of the elements the parser has open
    delivered,      \* the event source: what the open page has delivered so far:
                    \* "none", "title" or "text"
    element_stack,  \* main.rs:98
    page_count,     \* main.rs:100
    text,           \* main.rs:101
    store_text,     \* main.rs:102
    current_title,  \* main.rs:103
    keep_going,     \* main.rs:104
    out_file,       \* the output sink: the lines written so far, in order
    renders,        \* the calls of talk_to_server made so far, in order
    wire,           \* the operations of each call on its connection, in order
    dropped_title,  \* the title that the latest page start discarded, main.rs:114
    status,         \* "running", "finished" (end of dump), "stopped" (break),
                    \* or the panic that ended the run
    fxhtml,         \* markup filter: the argument of xhtml_to_plain
    plaintext_raw,  \* markup filter: plaintext after parsing.rs:175
    fresult         \* markup filter: the value xhtml_to_plain returned

vars == <<opts, source, nesting, delivered, element_stack, page_count, text, store_text,
          current_title, keep_going, out_file, renders, wire,
          dropped_title, status, fxhtml, plaintext_raw, fresult>>

travVars == <<opts, source, nesting, delivered, element_stack, page_count, text, store_text,
              current_title, keep_going, out_file, renders, wire,
              dropped_title, status>>

filterVars == <<fxhtml, plaintext_raw, fresult>>

-----------------------------------------------------------------------------
(* Bounds of the model.                                                    *)

MaxPages == 2       \* page elements per dump
MaxNodes == 3       \* nodes below <body> in a generated document
MaxLen == 4         \* characters of a generated text node

-----------------------------------------------------------------------------
(* Option and string helpers.                                              *)

None == <<>>
Some(v) == <<v>>
is_some(o) == o # <<>>

Last(s) == s[Len(s)]
Front(s) == SubSeq(s, 1, Len(s) - 1)
CharAt(s, i) == SubSeq(s, i, i)

\* str::starts_with
starts_with(s, prefix) ==
    /\ Len(s) >= Len(prefix)
    /\ SubSeq(s, 1, Len(prefix)) = prefix

RECURSIVE contains_from(_, _, _)
contains_from(s, pat, i) ==
    IF i + Len(pat) - 1 > Len(s) THEN FALSE
    ELSE IF SubSeq(s, i, i + Len(pat) - 1) = pat THEN TRUE
    ELSE contains_from(s, pat, i + 1)

\* str::contains
contains(s, pat) == contains_from(s, pat, 1)

-----------------------------------------------------------------------------
(* The rendered document.  A markup text is a record of the text itself    *)
(* and of what sxd_document::parser::parse makes of it (after the doctype  *)
(* and xmlns stripping of parsing.rs:157-162): Ok(root element) or an      *)
(* error.  Nodes are the ChildOfElement variants.                          *)

Element(name, attrs, children) ==
    [kind |-> "Element", name |-> name, attrs |-> attrs, children |-> children]
Text(t) == [kind |-> "Text", text |-> t]
Comment == [kind |-> "Comment"]
ProcessingInstruction == [kind |-> "ProcessingInstruction"]

Ok(v) == [ok |-> TRUE, val |-> v]
Err(e) == [ok |-> FALSE, err |-> e]

\* Element::attribute_value: attrs is a sequence of <<name, value>>
attribute_value(elem, name) ==
    LET hits == SelectSeq(elem.attrs, LAMBDA a : a[1] = name)
    IN IF hits = <<>> THEN None ELSE Some(hits[1][2])

RECURSIVE SerializeAttrs(_, _)
SerializeAttrs(attrs, i) ==
    IF i > Len(attrs) THEN ""
    ELSE " " \o attrs[i][1] \o "='" \o attrs[i][2] \o "'" \o SerializeAttrs(attrs, i + 1)

RECURSIVE Serialize(_)
RECURSIVE SerializeAll(_, _)
SerializeAll(children, i) ==
    IF i > Len(children) THEN ""
    ELSE Serialize(children[i]) \o SerializeAll(children, i + 1)

\* the markup text of a node: what the rendering service sends for it
Serialize(node) ==
    CASE node.kind = "Text" -> node.text
      [] node.kind = "Comment" -> "<!---->"
      [] node.kind = "ProcessingInstruction" -> "<?pi?>"
      [] node.kind = "Element" ->
            "<" \o node.name \o SerializeAttrs(node.attrs, 1) \o ">"
            \o SerializeAll(node.children, 1) \o "</" \o node.name \o ">"

Document(root) == [markup |-> Serialize(root), parsed |-> Ok(root)]
Unparseable(markup) == [markup |-> markup, parsed |-> Err(<<"XmlParsing">>)]

-----------------------------------------------------------------------------
(* parsing.rs: the Markup Filter.                                          *)

UpperCase == "ABCDEFGHIJKLMNOPQRSTUVWXYZ"
LowerCase == "abcdefghijklmnopqrstuvwxyz"

char_to_lowercase(c) ==
    IF \E i \in 1..Len(UpperCase) : CharAt(UpperCase, i) = c
    THEN CharAt(LowerCase, CHOOSE i \in 1..Len(UpperCase) : CharAt(UpperCase, i) = c)
    ELSE c

RECURSIVE to_lowercase_from(_, _)
to_lowercase_from(s, i) ==
    IF i > Len(s) THEN ""
    ELSE char_to_lowercase(CharAt(s, i)) \o to_lowercase_from(s, i + 1)

\* str::to_lowercase
to_lowercase(s) == to_lowercase_from(s, 1)

is_ascii_digit(c) == c \in {"0", "1", "2", "3", "4", "5", "6", "7", "8", "9"}

\* parsing.rs:90, on the element's name as it stands in the document
is_heading(elem_name) ==
    /\ Len(elem_name) = 2
    /\ starts_with(elem_name, "h")
    /\ is_ascii_digit(CharAt(elem_name, 2))

\* skipped_tag with the "table" arm lost
skipped_tag_no_table(lower_name) ==
    \/ lower_name \in {"ul", "ol", "dl", "li"}
    \/ lower_name \in {"math", "chem", "timeline", "syntaxhighlight", "hiero",
                       "inputbox", "score", "graph", "categorytree"}
    \/ lower_name \in {"sup", "sub"}

\* parsing.rs:95-106 and 120-123: the arms of the match that skip the element
skipped_tag(lower_name) ==
    \/ lower_name \in {"ul", "ol", "dl", "li"}
    \/ lower_name \in {"math", "chem", "timeline", "syntaxhighlight", "hiero",
                       "inputbox", "score", "graph", "categorytree"}
    \/ lower_name \in {"sup", "sub"}
    \/ lower_name = "table"

\* anchor_descend taking any href for a category link
anchor_descend_any_href(elem) ==
    LET href == attribute_value(elem, "href")
    IN IF is_some(href) THEN FALSE ELSE TRUE

\* parsing.rs:109-113
anchor_descend(elem) ==
    LET href == attribute_value(elem, "href")
    IN IF is_some(href) THEN ~starts_with(href[1], "./Kategorie:") ELSE TRUE

\* parsing.rs:126-130
span_descend(elem) ==
    LET type_of == attribute_value(elem, "typeof")
    IN IF is_some(type_of) THEN ~contains(type_of[1], "mw:Image") ELSE TRUE

\* parsing.rs:89-142: whether iterate_element recurses into the child element
descends_into(elem) ==
    IF is_heading(elem.name) THEN FALSE
    ELSE LET lower_name == to_lowercase(elem.name)
         IN CASE skipped_tag(lower_name) -> FALSE
              [] lower_name = "a" -> anchor_descend(elem)
              [] lower_name = "span" -> span_descend(elem)
              [] OTHER -> TRUE

RECURSIVE iterate_element(_)
RECURSIVE iterate_from(_, _, _)

\* parsing.rs:87-149: what one child adds to ret
child_string(child) ==
    CASE child.kind = "Element" ->
            IF descends_into(child) THEN iterate_element(child) ELSE ""
      [] child.kind = "Text" -> child.text
      [] child.kind = "Comment" -> ""
      [] child.kind = "ProcessingInstruction" -> ""

\* parsing.rs:86: the for loop over element.children(), from child i on
iterate_from(children, i, ret) ==
    IF i > Len(children) THEN ret
    ELSE iterate_from(children, i + 1, ret \o child_string(children[i]))

\* parsing.rs:83-153
iterate_element(element) == iterate_from(element.children, 1, "")

\* the regex class \s and char::is_whitespace
is_whitespace(c) == c \in {" ", "\t", "\n", "\r", "\f"}

RECURSIVE whitespace_run_end(_, _)
\* the last index of the run of whitespace that starts at i
whitespace_run_end(s, i) ==
    IF i < Len(s) /\ is_whitespace(CharAt(s, i + 1))
    THEN whitespace_run_end(s, i + 1)
    ELSE i

RECURSIVE replace_all_from(_, _, _)
replace_all_from(s, i, ret) ==
    IF i > Len(s) THEN ret
    ELSE IF is_whitespace(CharAt(s, i))
         THEN replace_all_from(s, whitespace_run_end(s, i) + 1, ret \o " ")
         ELSE replace_all_from(s, i + 1, ret \o CharAt(s, i))

\* parsing.rs:11-13, 176: WHITESPACE_RE.replace_all(s, " ")
whitespace_replace_all(s) == replace_all_from(s, 1, "")

RECURSIVE trim_start(_)
trim_start(s) ==
    IF Len(s) > 0 /\ is_whitespace(CharAt(s, 1))
    THEN trim_start(SubSeq(s, 2, Len(s)))
    ELSE s

RECURSIVE trim_end(_)
trim_end(s) ==
    IF Len(s) > 0 /\ is_whitespace(CharAt(s, Len(s)))
    THEN trim_end(SubSeq(s, 1, Len(s) - 1))
    ELSE s

\* str::trim
trim(s) == trim_end(trim_start(s))

\* normalize_whitespace with the trim lost
normalize_whitespace_no_trim(s) == whitespace_replace_all(s)

\* parsing.rs:176-178
normalize_whitespace(s) == trim(whitespace_replace_all(s))

\* parsing.rs:171-173: the nodes the XPath /html/body selects
body_nodes(root) ==
    IF root.name = "html"
    THEN SelectSeq(root.children, LAMBDA c : c.kind = "Element" /\ c.name = "body")
    ELSE <<>>

\* to_element taking the first node of a set of several
to_element_takes_first(nodeset) ==
    IF Len(nodeset) = 0
    THEN Err(<<"ExpectedSingleNode", Len(nodeset)>>)
    ELSE Ok(nodeset[1])

\* parsing.rs:68-80: to_node and to_element on the selected node set
to_element(nodeset) ==
    IF Len(nodeset) # 1
    THEN Err(<<"ExpectedSingleNode", Len(nodeset)>>)
    ELSE Ok(nodeset[1])

\* parsing.rs:156-180
xhtml_to_plain(xhtml) ==
    IF ~xhtml.parsed.ok THEN Err(xhtml.parsed.err)
    ELSE LET body_element == to_element(body_nodes(xhtml.parsed.val))
         IN IF ~body_element.ok THEN Err(body_element.err)
            ELSE Ok(normalize_whitespace(iterate_element(body_element.val)))

-----------------------------------------------------------------------------
(* main.rs: the rendering service and the Render Client.                   *)

ScenarioA ==
    Document(Element("html", <<>>, <<Element("body", <<>>,
        <<Element("p", <<>>, <<Text("Hello  world")>>),
          Element("h2", <<>>, <<Text("Ignore")>>)>>)>>))

HeadingOnly ==
    Document(Element("html", <<>>, <<Element("body", <<>>,
        <<Element("h2", <<>>, <<Text("Ignore")>>)>>)>>))

NoBody == Document(Element("html", <<>>, <<>>))

EmptyMarkup == Unparseable("")

\* what the rendering service may answer with
Responses == {EmptyMarkup, ScenarioA, HeadingOnly, NoBody}

\* i32::MAX
I32Max == 2147483647

\* usize -> i32, main.rs:26-27, 35-36
try_into_i32(n) == IF n <= I32Max THEN Ok(n) ELSE Err(<<"TryFromIntError">>)

\* i32 -> usize, main.rs:49
try_into_usize(i) == IF i >= 0 THEN Ok(i) ELSE Err(<<"TryFromIntError">>)

\* i32::to_be_bytes of a non-negative value
to_be_bytes(i) ==
    <<(i \div 16777216) % 256, (i \div 65536) % 256, (i \div 256) % 256, i % 256>>

\* i32::from_be_bytes: the four bytes as a two's complement number
from_be_bytes(b) ==
    LET high == IF b[1] >= 128 THEN b[1] - 256 ELSE b[1]
    IN high * 16777216 + b[2] * 65536 + b[3] * 256 + b[4]

\* the operations on the connection, as the peer sees them
Connect(ok) == [op |-> "connect", what |-> "connect", n |-> 0, ok |-> ok]
Write(what, n, ok) == [op |-> "write", what |-> what, n |-> n, ok |-> ok]
Read(what, n, got) == [op |-> "read", what |-> what, n |-> n, got |-> got,
                       ok |-> got = n]

\* a service that answers a request in full with the markup x
Honest(x) ==
    [connects |-> TRUE,         \* the connection is accepted
     writes |-> 5,              \* how many of the five request writes succeed
     len_bytes |-> to_be_bytes(Len(x.markup)),
                                \* the bytes of the length field that arrive
     payload |-> x,             \* the response the service sends
     arrive |-> Len(x.markup),  \* how many of its bytes arrive before the
                                \* connection closes
     valid_utf8 |-> TRUE,       \* whether the bytes read are valid UTF-8
     sign_off |-> TRUE]         \* whether the sign-off write succeeds

\* the length field declares 10 bytes and 5 arrive (Scenario E)
ShortResponse == [Honest(ScenarioA) EXCEPT !.len_bytes = to_be_bytes(10), !.arrive = 5]

\* the behaviours of the rendering service and of the connection to it
ServerBehaviours ==
    {Honest(x) : x \in Responses}
    \cup {[Honest(EmptyMarkup) EXCEPT !.connects = FALSE]}
    \cup {[Honest(ScenarioA) EXCEPT !.writes = k] : k \in 0..4}
    \cup {[Honest(ScenarioA) EXCEPT !.len_bytes = b] :
            b \in {<<>>, <<0, 0>>, <<128, 0, 0, 0>>, <<255, 255, 255, 255>>}}
    \cup {ShortResponse,
          [Honest(ScenarioA) EXCEPT !.arrive = 0],
          [Honest(ScenarioA) EXCEPT !.arrive = Len(ScenarioA.markup) - 1],
          [Honest(ScenarioA) EXCEPT !.len_bytes = to_be_bytes(5)],
          [Honest(ScenarioA) EXCEPT !.valid_utf8 = FALSE],
          [Honest(ScenarioA) EXCEPT !.sign_off = FALSE]}

\* the values of talk_to_server: Ok(markup), Err(io::Error), or a panic
IoError(kind) == Err(<<"io::Error", kind>>)
Expect(message) == Err(<<"panic", message>>)
is_panic(r) == ~r.ok /\ r.err[1] = "panic"

\* main.rs:22-41: the five writes of the request, up to the first that fails
write_request(title, wikitext, server) ==
    LET title_len_i32 == try_into_i32(Len(title))
        wikitext_len_i32 == try_into_i32(Len(wikitext))
        request == <<Write("magic", Len("WiKiCrUnCh"), TRUE),
                     Write("title_len", 4, TRUE),
                     Write("title", Len(title), TRUE),
                     Write("wikitext_len", 4, TRUE),
                     Write("wikitext", Len(wikitext), TRUE)>>
        \* the writes reached: a length that does not fit i32 panics before its write
        reached == IF ~title_len_i32.ok THEN 1
                   ELSE IF ~wikitext_len_i32.ok THEN 3
                   ELSE 5
        attempted == IF server.writes < reached THEN server.writes + 1 ELSE reached
    IN [log |-> [i \in 1..attempted |->
                    [request[i] EXCEPT !.ok = (i <= server.writes)]],
        result |-> IF server.writes < reached THEN IoError("write")
                   ELSE IF ~title_len_i32.ok
                   THEN Expect("failed to store title length as 32-bit integer")
                   ELSE IF ~wikitext_len_i32.ok
                   THEN Expect("failed to store wikitext length as 32-bit integer")
                   ELSE Ok(<<to_be_bytes(title_len_i32.val),
                             to_be_bytes(wikitext_len_i32.val)>>)]

\* the markup of the first n bytes of a response: a document cut short
\* does not parse
Received(payload, n) ==
    IF n = Len(payload.markup) THEN payload
    ELSE Unparseable(SubSeq(payload.markup, 1, n))

\* read_response taking the bytes that arrived for the response
read_response_accepts_short(server) ==
    IF Len(server.len_bytes) # 4
    THEN [log |-> <<Read("html_len", 4, Len(server.len_bytes))>>,
          result |-> IoError("UnexpectedEof")]
    ELSE LET html_len_i32 == from_be_bytes(server.len_bytes)
             html_len_usize == try_into_usize(html_len_i32)
         IN IF ~html_len_usize.ok
            THEN [log |-> <<Read("html_len", 4, 4)>>,
                  result |-> Expect("failed to store HTML length as usize")]
            ELSE LET got == IF server.arrive < html_len_usize.val THEN server.arrive
                            ELSE html_len_usize.val
                     log == <<Read("html_len", 4, 4),
                              Read("html", html_len_usize.val, got)>>
                 IN IF ~server.valid_utf8
                    THEN [log |-> log,
                          result |-> Expect("failed to parse HTML as UTF-8")]
                    ELSE [log |-> log,
                          result |-> Ok(Received(server.payload, got))]

\* main.rs:43-57: read the length field, then exactly that many bytes
read_response(server) ==
    IF Len(server.len_bytes) # 4
    THEN [log |-> <<Read("html_len", 4, Len(server.len_bytes))>>,
          result |-> IoError("UnexpectedEof")]
    ELSE LET html_len_i32 == from_be_bytes(server.len_bytes)
             html_len_usize == try_into_usize(html_len_i32)
         IN IF ~html_len_usize.ok
            THEN [log |-> <<Read("html_len", 4, 4)>>,
                  result |-> Expect("failed to store HTML length as usize")]
            ELSE LET got == IF server.arrive < html_len_usize.val THEN server.arrive
                            ELSE html_len_usize.val
                     log == <<Read("html_len", 4, 4),
                              Read("html", html_len_usize.val, got)>>
                 IN IF got < html_len_usize.val
                    THEN [log |-> log, result |-> IoError("UnexpectedEof")]
                    ELSE IF ~server.valid_utf8
                    THEN [log |-> log,
                          result |-> Expect("failed to parse HTML as UTF-8")]
                    ELSE [log |-> log,
                          result |-> Ok(Received(server.payload, got))]

\* main.rs:60
sign_off(server) == Write("sign_off", Len("EnOuGhWiKi"), server.sign_off)

\* talk_to_server saying goodbye before it reads the response
talk_to_server_early_sign_off(title, wikitext, server) ==
    IF ~server.connects
    THEN [log |-> <<Connect(FALSE)>>, result |-> IoError("connect")]
    ELSE LET request == write_request(title, wikitext, server)
         IN IF ~request.result.ok
            THEN [log |-> <<Connect(TRUE)>> \o request.log, result |-> request.result]
            ELSE IF ~server.sign_off
                 THEN [log |-> <<Connect(TRUE)>> \o request.log
                                 \o <<sign_off(server)>>,
                       result |-> IoError("write")]
                 ELSE LET response == read_response(server)
                      IN [log |-> <<Connect(TRUE)>> \o request.log
                                    \o <<sign_off(server)>> \o response.log,
                          result |-> response.result]

\* main.rs:18-63: the operations on the connection and the value returned
talk_to_server(title, wikitext, server) ==
    IF ~server.connects
    THEN [log |-> <<Connect(FALSE)>>, result |-> IoError("connect")]
    ELSE LET request == write_request(title, wikitext, server)
         IN IF ~request.result.ok
            THEN [log |-> <<Connect(TRUE)>> \o request.log, result |-> request.result]
            ELSE LET response == read_response(server)
                 IN IF ~response.result.ok
                    THEN [log |-> <<Connect(TRUE)>> \o request.log \o response.log,
                          result |-> response.result]
                    ELSE [log |-> <<Connect(TRUE)>> \o request.log \o response.log
                                    \o <<sign_off(server)>>,
                          result |-> IF server.sign_off THEN response.result
                                     ELSE IoError("write")]

-----------------------------------------------------------------------------
(* main.rs: the Dump Traversal Engine.                                     *)

page_level == <<"mediawiki", "page">>
title_level == <<"mediawiki", "page", "title">>
text_level == <<"mediawiki", "page", "revision", "text">>

\* the content model of the dumps: the elements the dump may open inside an
\* element.  As in the export schema a page has at most one title and, after
\* it, at most one revision text; besides there are a title that is not a
\* page's and a child element inside a title or a text.
ChildrenOf(parent, had) ==
    CASE parent = "mediawiki" -> {"page", "siteinfo"}
      [] parent = "page" -> (IF had = "none" THEN {"title"} ELSE {})
                            \cup (IF had # "text" THEN {"revision"} ELSE {})
      [] parent = "siteinfo" -> {"title"}
      [] parent = "revision" -> IF had # "text" THEN {"text"} ELSE {}
      [] parent = "title" -> {"b"}
      [] parent = "text" -> {"b"}
      [] OTHER -> {}

\* the names the dump may open next
NextNames(open, had) ==
    IF open = <<>> THEN {"mediawiki"} ELSE ChildrenOf(Last(open), had)

\* the character data the dump may deliver in one Characters event
ChunksIn(open) ==
    IF Last(open) = "text" THEN {"wikitext"} ELSE {"A", "Kategorie:X"}

\* the command lines of the run
Titles == {None, Some("A"), Some("Kategorie:X")}
OptsSet ==
    [title : Titles, and_after : BOOLEAN, xhtml_output : BOOLEAN,
     no_plain_output : BOOLEAN]

\* main.rs:128-133
namespace_excluded(ct) ==
    \/ starts_with(ct, "Medium:") \/ starts_with(ct, "Spezial:")
    \/ starts_with(ct, "Diskussion:")
    \/ starts_with(ct, "Benutzer:") \/ starts_with(ct, "Benutzer Diskussion:")
    \/ starts_with(ct, "Datei:") \/ starts_with(ct, "Datei Diskussion:")
    \/ starts_with(ct, "Vorlage:") \/ starts_with(ct, "Vorlage Diskussion:")
    \/ starts_with(ct, "Kategorie:") \/ starts_with(ct, "Kategorie Diskussion:")

\* select_body with the title filter deciding before the namespace exclusion
select_body_filter_first(o, ct, kg) ==
    IF ~kg /\ is_some(o.title)
    THEN is_some(ct) /\ o.title[1] = ct[1]
    ELSE ~(is_some(ct) /\ namespace_excluded(ct[1]))

\* select_body with the test of keep_going lost
select_body_ignores_keep_going(o, ct, kg) ==
    LET parse_it == ~(is_some(ct) /\ namespace_excluded(ct[1]))
    IN IF parse_it
       THEN IF is_some(o.title)
            THEN IF is_some(ct) THEN o.title[1] = ct[1] ELSE FALSE
            ELSE TRUE
       ELSE parse_it

\* main.rs:125-149: the value of parse_it at line 151
select_body(o, ct, kg) ==
    LET parse_it == ~(is_some(ct) /\ namespace_excluded(ct[1]))
    IN IF parse_it /\ ~kg
       THEN IF is_some(o.title)
            THEN IF is_some(ct) THEN o.title[1] = ct[1] ELSE FALSE
            ELSE TRUE
       ELSE parse_it

\* main.rs:179-189: the value of output_title
output_title(o, ct, kg) ==
    IF is_some(o.title)
    THEN IF kg THEN TRUE
         ELSE IF is_some(ct) THEN ct[1] = o.title[1] ELSE FALSE
    ELSE TRUE

\* title_line counting the pages from zero
title_line_zero_based(count, t) ==
    [kind |-> "title", line |-> "# " \o ToString(count - 1) \o " TITLE: " \o t]

\* main.rs:191
title_line(count, t) ==
    [kind |-> "title", line |-> "# " \o ToString(count) \o " TITLE: " \o t]

\* body_output writing the plain text before the markup
body_output_plain_first(o, xhtml) ==
    IF Len(xhtml.markup) > 0
    THEN LET markup_lines == IF o.xhtml_output
                             THEN <<[kind |-> "xhtml", line |-> xhtml.markup]>>
                             ELSE <<>>
         IN IF ~o.no_plain_output
            THEN LET plaintext == xhtml_to_plain(xhtml)
                 IN IF plaintext.ok
                    THEN [lines |-> <<[kind |-> "plain", line |-> plaintext.val]>>
                                    \o markup_lines,
                          panicked |-> FALSE]
                    ELSE [lines |-> markup_lines, panicked |-> TRUE]
            ELSE [lines |-> markup_lines, panicked |-> FALSE]
    ELSE [lines |-> <<>>, panicked |-> FALSE]

\* main.rs:158-168: the lines written for a rendered body, and whether
\* xhtml_to_plain(..).unwrap() panicked
body_output(o, xhtml) ==
    IF Len(xhtml.markup) > 0
    THEN LET markup_lines == IF o.xhtml_output
                             THEN <<[kind |-> "xhtml", line |-> xhtml.markup]>>
                             ELSE <<>>
         IN IF ~o.no_plain_output
            THEN LET plaintext == xhtml_to_plain(xhtml)
                 IN IF plaintext.ok
                    THEN [lines |-> Append(markup_lines,
                                           [kind |-> "plain", line |-> plaintext.val]),
                          panicked |-> FALSE]
                    ELSE [lines |-> markup_lines, panicked |-> TRUE]
            ELSE [lines |-> markup_lines, panicked |-> FALSE]
    ELSE [lines |-> <<>>, panicked |-> FALSE]

\* after_body with the break lost
after_body_no_break(o) == IF o.and_after THEN "keep_going" ELSE "next"

\* main.rs:170-174: what follows a rendered body
after_body(o) ==
    IF o.and_after THEN "keep_going"
    ELSE IF is_some(o.title) THEN "break"
    ELSE "next"

\* the locals of main, main.rs:98-104
locals == <<element_stack, page_count, text, store_text, current_title, keep_going>>

\* a panic unwinds main: its locals and the dump reader are dropped; the sink
\* and what the service has seen remain
Panic(message) ==
    /\ status' = message
    /\ source' = "closed"
    /\ nesting' = <<>>
    /\ delivered' = "none"
    /\ dropped_title' = None
    /\ element_stack' = <<>>
    /\ page_count' = 0
    /\ text' = ""
    /\ store_text' = FALSE
    /\ current_title' = None
    /\ keep_going' = FALSE

\* start_element with the current title kept over a page start
start_element_keeps_title(stack, name, count, txt, st, ct) ==
    LET pushed == Append(stack, name)
    IN IF pushed = page_level
       THEN [element_stack |-> pushed, page_count |-> count + 1, text |-> txt,
             store_text |-> st, current_title |-> ct]
       ELSE IF pushed = text_level \/ pushed = title_level
            THEN [element_stack |-> pushed, page_count |-> count, text |-> "",
                  store_text |-> TRUE, current_title |-> ct]
            ELSE [element_stack |-> pushed, page_count |-> count, text |-> txt,
                  store_text |-> st, current_title |-> ct]

\* start_element with the text kept at the start of a tracked element
start_element_keeps_text(stack, name, count, txt, st, ct) ==
    LET pushed == Append(stack, name)
    IN IF pushed = page_level
       THEN [element_stack |-> pushed, page_count |-> count + 1, text |-> txt,
             store_text |-> st, current_title |-> None]
       ELSE IF pushed = text_level \/ pushed = title_level
            THEN [element_stack |-> pushed, page_count |-> count, text |-> txt,
                  store_text |-> TRUE, current_title |-> ct]
            ELSE [element_stack |-> pushed, page_count |-> count, text |-> txt,
                  store_text |-> st, current_title |-> ct]

\* main.rs:111-118: the locals after a start-element of the given name
start_element(stack, name, count, txt, st, ct) ==
    LET pushed == Append(stack, name)
    IN IF pushed = page_level
       THEN [element_stack |-> pushed, page_count |-> count + 1, text |-> txt,
             store_text |-> st, current_title |-> None]
       ELSE IF pushed = text_level \/ pushed = title_level
            THEN [element_stack |-> pushed, page_count |-> count, text |-> "",
                  store_text |-> TRUE, current_title |-> ct]
            ELSE [element_stack |-> pushed, page_count |-> count, text |-> txt,
                  store_text |-> st, current_title |-> ct]

\* pop with the element left on the path
pop_leaves_element(stack) == stack

\* main.rs:196
pop(stack) == Front(stack)

\* main.rs:110-119
StartElement ==
    /\ status = "running"
    /\ IF nesting = <<>> THEN source = "prolog" ELSE source = "root"
    /\ \E name \in NextNames(nesting, delivered) :
        LET after == start_element(element_stack, name, page_count, text, store_text,
                                   current_title)
        IN /\ nesting' = Append(nesting, name)
           /\ delivered' = IF nesting' = page_level THEN "none"
                           ELSE IF nesting' = title_level THEN "title"
                           ELSE IF nesting' = text_level THEN "text"
                           ELSE delivered
           /\ page_count < MaxPages \/ nesting' # page_level
           /\ dropped_title' = IF nesting' = page_level THEN current_title
                               ELSE dropped_title
           /\ element_stack' = after.element_stack
           /\ page_count' = after.page_count
           /\ text' = after.text
           /\ store_text' = after.store_text
           /\ current_title' = after.current_title
    /\ source' = "root"
    /\ UNCHANGED <<opts, keep_going, out_file, renders, wire, status, filterVars>>

\* the event source delivers the end of the innermost open element
SourceEnd ==
    /\ nesting' = Front(nesting)
    /\ source' = IF Len(nesting) = 1 THEN "epilog" ELSE source
    /\ UNCHANGED <<delivered, dropped_title>>

\* main.rs:151-175: a selected body
RenderBody ==
    \E server \in ServerBehaviours :
        LET page_title == IF is_some(current_title) THEN current_title[1]
                          ELSE "Unbekannte Seite"
            exchange == talk_to_server(page_title, text, server)
            xhtml == exchange.result
            body == body_output(opts, xhtml.val)
        IN /\ renders' = Append(renders, [page |-> page_count, title |-> page_title,
                                          wikitext |-> text])
           /\ wire' = Append(wire, exchange.log)
           /\ IF ~xhtml.ok
              THEN /\ Panic(IF is_panic(xhtml) THEN "panic: " \o xhtml.err[2]
                            ELSE "panic: talk_to_server")
                   /\ UNCHANGED out_file
              ELSE /\ out_file' = out_file \o body.lines
                   /\ IF body.panicked
                      THEN Panic("panic: xhtml_to_plain")
                      ELSE /\ SourceEnd
                           /\ store_text' = FALSE
                           /\ UNCHANGED <<page_count, text, current_title>>
                           /\ CASE after_body(opts) = "keep_going" ->
                                    /\ keep_going' = TRUE
                                    /\ element_stack' = pop(element_stack)
                                    /\ UNCHANGED status
                                [] after_body(opts) = "break" ->
                                    /\ status' = "stopped"
                                    /\ UNCHANGED <<keep_going, element_stack>>
                                [] OTHER ->
                                    /\ element_stack' = pop(element_stack)
                                    /\ UNCHANGED <<keep_going, status>>

\* main.rs:120-197
EndElement ==
    /\ status = "running"
    /\ nesting # <<>>
    /\ IF store_text
       THEN IF element_stack = text_level
            THEN IF select_body(opts, current_title, keep_going)
                 THEN RenderBody
                 ELSE /\ SourceEnd
                      /\ store_text' = FALSE
                      /\ element_stack' = pop(element_stack)
                      /\ UNCHANGED <<page_count, text, current_title, keep_going,
                                     out_file, renders, wire, status>>
            ELSE IF element_stack = title_level
                 THEN /\ SourceEnd
                      /\ store_text' = FALSE
                      /\ out_file' =
                           IF output_title(opts, current_title, keep_going)
                           THEN Append(out_file, title_line(page_count, text))
                           ELSE out_file
                      /\ current_title' = Some(text)
                      /\ element_stack' = pop(element_stack)
                      /\ UNCHANGED <<page_count, text, keep_going, renders, wire, status>>
                 ELSE \* assert_eq!(element_stack, title_level) fails
                      /\ Panic("panic: assert_eq")
                      /\ UNCHANGED <<out_file, renders, wire>>
       ELSE /\ SourceEnd
            /\ element_stack' = pop(element_stack)
            /\ UNCHANGED <<page_count, text, store_text, current_title, keep_going,
                           out_file, renders, wire, status>>
    /\ UNCHANGED <<opts, filterVars>>

\* main.rs:198-202; the reader coalesces character data, so a tracked element
\* delivers its characters in one event
Characters ==
    /\ status = "running"
    /\ nesting # <<>>
    /\ \E chars \in ChunksIn(nesting) :
        IF store_text
        THEN /\ text = ""
             /\ text' = text \o chars
        ELSE UNCHANGED text
    /\ UNCHANGED <<opts, source, nesting, delivered, dropped_title, element_stack,
                   page_count, store_text, current_title, keep_going, out_file, renders, wire,
                   status, filterVars>>

\* main.rs:203-205
CData ==
    /\ status = "running"
    /\ nesting # <<>>
    /\ Panic("panic: CDATA!")
    /\ UNCHANGED <<opts, out_file, renders, wire, filterVars>>

\* main.rs:107: event_res.unwrap() on a dump that is not well-formed
XmlError ==
    /\ status = "running"
    /\ Panic("panic: event_res")
    /\ UNCHANGED <<opts, out_file, renders, wire, filterVars>>

\* main.rs:106, 206: the dump ends; the last event is ignored and the loop is left
EndDocument ==
    /\ status = "running"
    /\ source = "epilog"
    /\ status' = "finished"
    /\ UNCHANGED <<opts, source, nesting, delivered, dropped_title, locals, out_file,
                   renders, wire, filterVars>>

\* main.rs:80-104
Init ==
    /\ opts \in OptsSet
    /\ source = "prolog"
    /\ nesting = <<>>
    /\ delivered = "none"
    /\ dropped_title = None
    /\ element_stack = <<>>
    /\ page_count = 0
    /\ text = ""
    /\ store_text = FALSE
    /\ current_title = None
    /\ keep_going = FALSE
    /\ out_file = <<>>
    /\ renders = <<>>
    /\ wire = <<>>
    /\ status = "running"
    /\ fxhtml = None
    /\ plaintext_raw = None
    /\ fresult = None

Next ==
    \/ StartElement
    \/ EndElement
    \/ Characters
    \/ CData
    \/ XmlError
    \/ EndDocument

Spec == Init /\ [][Next]_vars

-----------------------------------------------------------------------------
(* Properties of the Dump Traversal Engine, under Spec.                    *)

Panicked(st) == st \notin {"running", "finished", "stopped"}

\* the eleven namespace prefixes of the specification
ExcludedPrefixes ==
    {"Medium:", "Spezial:", "Diskussion:", "Benutzer:", "Benutzer Diskussion:",
     "Datei:", "Datei Diskussion:", "Vorlage:", "Vorlage Diskussion:",
     "Kategorie:", "Kategorie Diskussion:"}
\* a title in each of the eleven namespaces
ExcludedTitles ==
    {"Medium:X", "Spezial:X", "Diskussion:X", "Benutzer:X", "Benutzer Diskussion:X",
     "Datei:X", "Datei Diskussion:X", "Vorlage:X", "Vorlage Diskussion:X",
     "Kategorie:X", "Kategorie Diskussion:X"}
InExcludedNamespace(t) == \E p \in ExcludedPrefixes : starts_with(t, p)

\* the arguments of the Render Client call for the body that is ending
RenderCall ==
    [page |-> page_count,
     title |-> IF is_some(current_title) THEN current_title[1] ELSE "Unbekannte Seite",
     wikitext |-> text]

TitleLines == SelectSeq(out_file, LAMBDA l : l.kind = "title")

\* C1, as claimed: a run with a title filter and without the "and everything
\* after" option selects exactly one page body.
SingleMatchExactlyOne ==
    (status \in {"finished", "stopped"} /\ is_some(opts.title) /\ ~opts.and_after)
        => Len(renders) = 1

\* C1, amended: a run with a title filter and without the "and everything
\* after" option selects at most one page body; once one is selected the run
\* is over (no further event is processed, no further line written), and the
\* scan is only ever cut short after a selected body.
SingleMatchAtMostOne ==
    /\ (is_some(opts.title) /\ ~opts.and_after) =>
            /\ Len(renders) <= 1
            /\ Len(renders) = 1 => status # "running"
    /\ status = "stopped" =>
            (is_some(opts.title) /\ ~opts.and_after /\ Len(renders) = 1)

\* C1 witness: the scan stopped after the one selected body of page 1
SingleMatchWitness ==
    /\ status = "stopped"
    /\ opts.title = Some("A") /\ ~opts.and_after
    /\ renders = <<[page |-> 1, title |-> "A", wikitext |-> "wikitext"]>>
    /\ Len(out_file) > 0
    /\ out_file[Len(out_file)].kind = "plain"

\* C2: at the end of every title, the title line is written exactly when no
\* filter is configured, or the continue flag is set, or the title just
\* parsed equals the filter title.
TitleLineDecision ==
    [][(EndElement /\ store_text /\ element_stack = title_level) =>
          LET emit == \/ ~is_some(opts.title)
                      \/ keep_going
                      \/ text = opts.title[1]
          IN out_file' = IF emit THEN Append(out_file, title_line(page_count, text))
                         ELSE out_file]_vars

\* C3: a body whose current title starts with one of the eleven prefixes is
\* never selected: ending an element then calls no render and writes no
\* line, whatever the filter, the option and the continue flag are, also
\* when the title equals the filter title; and at every body's end the
\* selection decision rejects a title of each of the eleven namespaces, under
\* the run's filter and under a filter equal to that title.
NamespaceExclusion ==
    [][/\ (EndElement /\ is_some(current_title) /\ InExcludedNamespace(current_title[1]))
            => (renders' = renders /\ out_file' = out_file)
       /\ (EndElement /\ nesting = text_level) =>
            \A t \in ExcludedTitles :
                /\ ~select_body(opts, Some(t), keep_going)
                /\ ~select_body([opts EXCEPT !.title = Some(t)], Some(t), keep_going)
      ]_vars

\* C3 witness: the body of a page titled Kategorie:X has ended unselected in
\* a run whose filter title is Kategorie:X
NamespaceExclusionWitness ==
    /\ status = "running"
    /\ opts.title = Some("Kategorie:X")
    /\ current_title = Some("Kategorie:X")
    /\ nesting = <<"mediawiki", "page", "revision">>
    /\ delivered = "text"
    /\ ~store_text
    /\ text = "wikitext"
    /\ renders = <<>>

\* C4: once set the continue flag stays set while the scan lasts, and with it
\* set every body whose title is not in an excluded namespace is rendered,
\* whatever its title, also when the page has none.
ContinueMonotonic ==
    [][/\ (keep_going /\ ~Panicked(status')) => keep_going'
       /\ (/\ EndElement /\ keep_going /\ nesting = text_level
           /\ ~(is_some(current_title) /\ InExcludedNamespace(current_title[1])))
            => renders' = Append(renders, RenderCall)
      ]_vars

\* C4 witness: with the filter title A, page 1 (A) set the flag and page 2,
\* which has no title, was rendered under the placeholder
ContinueMonotonicWitness ==
    /\ keep_going
    /\ opts.title = Some("A")
    /\ Len(renders) = 2
    /\ renders[1].title = "A" /\ renders[1].page = 1
    /\ renders[2].title = "Unbekannte Seite" /\ renders[2].page = 2

\* C5: no raw-markup line and no plain-text line is empty.
NoEmptyBodyLine ==
    \A i \in 1..Len(out_file) :
        out_file[i].kind \in {"xhtml", "plain"} => out_file[i].line # ""

\* no page is rendered twice, and the pages are rendered in dump order
RenderedOnceInOrder ==
    \A i, j \in 1..Len(renders) : i < j => renders[i].page < renders[j].page

\* C6: with no title filter, the k-th page of the dump has page index k, the
\* title line of a page carries the page's index, and the body of a page
\* with a title outside the excluded namespaces is rendered, once.
EveryPageInOrder ==
    [][~is_some(opts.title) =>
        /\ (StartElement /\ nesting' = page_level) => page_count' = page_count + 1
        /\ (~(StartElement /\ nesting' = page_level) /\ ~Panicked(status'))
              => page_count' = page_count
        /\ (EndElement /\ nesting = title_level) =>
              out_file' = Append(out_file,
                  [kind |-> "title",
                   line |-> "# " \o ToString(page_count) \o " TITLE: " \o text])
        /\ (/\ EndElement /\ nesting = text_level
            /\ is_some(current_title) /\ ~InExcludedNamespace(current_title[1]))
              => renders' = Append(renders, RenderCall)
        /\ RenderedOnceInOrder'
      ]_vars

\* C6 witness (Scenario D): two pages, both rendered, title lines 1 and 2
EveryPageWitness ==
    /\ status = "finished"
    /\ ~is_some(opts.title)
    /\ page_count = 2
    /\ Len(renders) = 2
    /\ renders[1].page = 1 /\ renders[2].page = 2
    /\ Len(TitleLines) = 2
    /\ TitleLines[1].line = "# 1 TITLE: A"
    /\ TitleLines[2].line = "# 2 TITLE: A"

\* the exchange of the Render Client call that a step made
Called == Len(wire') = Len(wire) + 1
Exchange == wire'[Len(wire')]

\* fewer bytes arrived than the length field declared
ShortRead(log) ==
    \E i \in DOMAIN log :
        /\ log[i].op = "read" /\ log[i].what = "html"
        /\ log[i].got < log[i].n

\* C11: when fewer bytes arrive than the response length declares, the call
\* fails with a transport error and the run aborts: no line is written for
\* the page, the dump reader is dropped, and an aborted run takes no further
\* step.
ShortReadAborts ==
    [][/\ ~Panicked(status)
       /\ (Called /\ ShortRead(Exchange)) =>
            /\ status' = "panic: talk_to_server"
            /\ out_file' = out_file
            /\ source' = "closed"
            /\ Exchange[Len(Exchange)].what = "html"
      ]_vars

\* C11 witness (Scenario E): page 1 got its title line, the response declared
\* 10 bytes, 5 arrived, and the run has aborted with no body line written
ShortReadWitness ==
    /\ status = "panic: talk_to_server"
    /\ Len(wire) = 1
    /\ wire[1][Len(wire[1])] = Read("html", 10, 5)
    /\ renders = <<[page |-> 1, title |-> "A", wikitext |-> "wikitext"]>>
    /\ opts.xhtml_output /\ ~opts.no_plain_output
    /\ out_file = <<[kind |-> "title", line |-> "# 1 TITLE: A"]>>

\* the order of one exchange
ExchangeOrder ==
    <<"connect", "magic", "title_len", "title", "wikitext_len", "wikitext",
      "html_len", "html", "sign_off">>
ExchangeOps ==
    <<"connect", "write", "write", "write", "write", "write", "read", "read", "write">>

\* the call of wire[i] returned Ok: a later call was made, or the run did not
\* abort in the call
ExchangePanics ==
    {"panic: talk_to_server", "panic: failed to store HTML length as usize",
     "panic: failed to parse HTML as UTF-8"}
Returned(i) == i < Len(wire) \/ status \notin ExchangePanics

\* C12: every call opens one connection and its operations are a prefix of
\* connect, magic, title length, title, body length, body, read length, read
\* response, sign-off, each operation following only completed ones; so
\* nothing is read before the request is written and the sign-off follows
\* the complete response.  The title and body written are those of the
\* call, and the call returns Ok exactly when the sign-off was sent.
WireOrder ==
    /\ Len(wire) = Len(renders)
    /\ \A i \in 1..Len(wire) :
        LET log == wire[i]
        IN /\ Len(log) \in 1..Len(ExchangeOrder)
           /\ \A k \in 1..Len(log) :
                /\ log[k].what = ExchangeOrder[k]
                /\ log[k].op = ExchangeOps[k]
                /\ k < Len(log) => log[k].ok
           /\ Len(log) >= 4 => log[4].n = Len(renders[i].title)
           /\ Len(log) >= 6 => log[6].n = Len(renders[i].wikitext)
           /\ Returned(i) <=> (Len(log) = Len(ExchangeOrder) /\ log[Len(log)].ok)

\* C12 witness: a complete exchange for page 1, and one for page 2 that
\* ended at the read of the response length
WireOrderWitness ==
    /\ Len(wire) = 2
    /\ Len(wire[1]) = 9
    /\ wire[1][9] = Write("sign_off", 10, TRUE)
    /\ wire[1][8].ok /\ wire[1][8].n > 0
    /\ Len(wire[2]) = 7
    /\ ~wire[2][7].ok
    /\ status = "panic: talk_to_server"

\* C13, as claimed: after every event the Element Path is the sequence of the
\* names of the open elements.
ElementPathAlways == element_stack = nesting

\* C13, amended: while the scan lasts the Element Path is the sequence of the
\* names of the open elements: a start-element pushes its name, an
\* end-element after which the scan goes on pops it, so the path is a target
\* path exactly when the nesting is; the end-element that ends the scan
\* (single-match mode) leaves the path as it was.
ElementPathRunning ==
    [][/\ status' = "running" => element_stack' = nesting'
       /\ StartElement => (/\ Len(element_stack') = Len(element_stack) + 1
                           /\ Front(element_stack') = element_stack)
       /\ (EndElement /\ status' = "running") =>
              element_stack = Append(element_stack', Last(nesting))
       /\ status' = "running" =>
              \A target \in {page_level, title_level, text_level} :
                  (element_stack' = target) <=> (nesting' = target)
       /\ status' = "stopped" => element_stack' = element_stack
      ]_vars

\* C13 witness: the second page's text has been entered and left
ElementPathWitness ==
    /\ status = "running"
    /\ page_count = 2
    /\ delivered = "text"
    /\ element_stack = <<"mediawiki", "page", "revision">>
    /\ nesting = element_stack
    /\ Len(renders) = 2

\* the end-element of a tracked revision text
BodyEnd == EndElement /\ store_text /\ element_stack = text_level

\* C15: a selected body whose rendered markup is empty writes no line, does
\* not flip the continue flag and does not end the scan.
EmptyRenderUntouched ==
    [][(/\ BodyEnd /\ Called
        /\ Len(Exchange) = Len(ExchangeOrder)
        /\ Exchange[Len(Exchange)].ok
        /\ Exchange[8].n = 0)
          => /\ out_file' = out_file
             /\ keep_going' = keep_going
             /\ status' = "running"
      ]_vars

\* C16: the end of an element that is neither the title nor the revision
\* text pops the Element Path and does nothing else.
OtherEndOnlyPops ==
    [][(EndElement /\ element_stack # title_level /\ element_stack # text_level)
          => /\ element_stack' = Front(element_stack)
             /\ UNCHANGED <<text, store_text, current_title, page_count, keep_going,
                            out_file>>
             /\ status' = status
      ]_vars

\* C17: a page start discards the current title and only the end of a page's
\* title sets it, to the title's text; so at the end of the body of a page
\* without a title there is no current title: under a filter and without the
\* continue flag the body is not rendered, and otherwise it is rendered under
\* the placeholder title, whatever the title of the page before was.
TitleNeverLeaks ==
    [][/\ (StartElement /\ nesting' = page_level) => current_title' = None
       /\ (current_title' # current_title /\ is_some(current_title'))
            => (/\ EndElement /\ nesting = title_level
                /\ current_title' = Some(text))
       /\ (BodyEnd /\ delivered # "text") => FALSE
       /\ (BodyEnd /\ current_title = None) =>
            IF is_some(opts.title) /\ ~keep_going
            THEN renders' = renders /\ out_file' = out_file
            ELSE /\ Called
                 /\ renders'[Len(renders')].title = "Unbekannte Seite"
      ]_vars

\* C17 witness: the filter title is A, page 1 was titled A, and the body of
\* page 2, which has no title, has ended without a render
TitleNeverLeaksWitness ==
    /\ status = "running"
    /\ opts.title = Some("A") /\ ~keep_going
    /\ page_count = 2
    /\ dropped_title = Some("A")
    /\ current_title = None
    /\ element_stack = <<"mediawiki", "page", "revision">>
    /\ delivered = "text"
    /\ text = "wikitext"
    /\ renders = <<>>

\* C18: the Render Client is called at the end of a body exactly when the
\* body is selected, and at no other event; the call carries the current
\* title or the placeholder and the text, which is empty at the start of the
\* revision text and grows by exactly the characters delivered since; every
\* call is over (one exchange logged per call) when the step is, and no page
\* is rendered twice.
RenderOncePerSelected ==
    [][/\ BodyEnd =>
            IF select_body(opts, current_title, keep_going)
            THEN renders' = Append(renders, RenderCall) /\ Called
            ELSE renders' = renders /\ wire' = wire
       /\ ~BodyEnd => (renders' = renders /\ wire' = wire)
       /\ (StartElement /\ nesting' = text_level) => text' = ""
       /\ (Characters /\ store_text) => \E c \in ChunksIn(nesting) : text' = text \o c
       /\ (/\ ~(StartElement /\ (nesting' = text_level \/ nesting' = title_level))
           /\ ~Characters /\ ~Panicked(status'))
            => text' = text
       /\ Len(wire') = Len(renders')
       /\ RenderedOnceInOrder'
      ]_vars

\* C18 witness: page 1 (Kategorie:X) was not rendered, page 2 (A) was
\* rendered once, with its own text
RenderOncePerSelectedWitness ==
    /\ status = "finished"
    /\ ~is_some(opts.title)
    /\ Len(TitleLines) = 2
    /\ TitleLines[1].line = "# 1 TITLE: Kategorie:X"
    /\ TitleLines[2].line = "# 2 TITLE: A"
    /\ renders = <<[page |-> 2, title |-> "A", wikitext |-> "wikitext"]>>
    /\ Len(wire) = 1

IsPrefix(s, t) == Len(s) <= Len(t) /\ SubSeq(t, 1, Len(s)) = s
Kinds(lines) == [i \in 1..Len(lines) |-> lines[i].kind]

\* C19: lines are only ever appended to the output, by the event of the dump
\* they belong to: the end of a page's title appends at most the title line
\* of that page, before the page's text has started; the end of a page's
\* text appends at most the markup line and then the plain-text line; and
\* the page index never decreases.
OutputOrder ==
    [][LET added == SubSeq(out_file', Len(out_file) + 1, Len(out_file'))
       IN /\ IsPrefix(out_file, out_file')
          /\ Kinds(added) \in {<<>>, <<"title">>, <<"xhtml">>, <<"plain">>,
                               <<"xhtml", "plain">>}
          /\ added # <<>> => EndElement
          /\ (added # <<>> /\ added[1].kind = "title") =>
                /\ nesting = title_level /\ delivered = "title"
                /\ added[1].line = "# " \o ToString(page_count) \o " TITLE: " \o text
          /\ (added # <<>> /\ added[1].kind # "title") =>
                /\ nesting = text_level /\ delivered = "text"
                /\ renders'[Len(renders')].page = page_count
          /\ ~Panicked(status') => page_count' >= page_count
      ]_vars

\* C19 witness: two pages, each with its title line, markup line and
\* plain-text line, page 1 first
OutputOrderWitness ==
    /\ status = "finished"
    /\ Kinds(out_file) = <<"title", "xhtml", "plain", "title", "xhtml", "plain">>
    /\ out_file[1].line = "# 1 TITLE: A"
    /\ out_file[4].line = "# 2 TITLE: A"
    /\ out_file[3].line = "Hello world"
    /\ out_file[6].line = ""

\* C20: whenever an element ends while the accumulating flag is set, the
\* Element Path is the revision-text path or the title path.
AssertionHolds ==
    [][(EndElement /\ store_text) =>
          (element_stack = text_level \/ element_stack = title_level)]_vars

-----------------------------------------------------------------------------
(* The Markup Filter on its own: xhtml_to_plain applied to one markup text. *)

\* the tag names of the documents: every name the filter's match names, the
\* headings, names in another letter case, and names with the default policy
TagNames ==
    {"ul", "ol", "dl", "li"}
    \cup {"math", "chem", "timeline", "syntaxhighlight", "hiero", "inputbox",
          "score", "graph", "categorytree"}
    \cup {"sup", "sub", "table", "a", "span"}
    \cup {"h0", "h1", "h2", "h3", "h4", "h5", "h6", "h7", "h8", "h9"}
    \cup {"H2", "UL", "Li", "MATH", "Sup", "TABLE", "A", "SPAN"}
    \cup {"p", "div", "b", "i", "h", "hr", "h10", "ha", "th", "body"}

\* the attribute lists of the documents
AttrChoices ==
    {<<>>,
     <<<<"href", "./Kategorie:Foo">>>>,
     <<<<"href", "./Foo">>>>,
     <<<<"href", "x./Kategorie:Foo">>>>,
     <<<<"typeof", "mw:Image">>>>,
     <<<<"typeof", "x mw:Image/Thumb">>>>,
     <<<<"typeof", "mw:Transclusion">>>>}

InBody(children) ==
    Document(Element("html", <<>>, <<Element("body", <<>>, children)>>))

\* one element of every name and attribute list, with text below it and
\* text, a comment and a processing instruction beside it
NameProbes ==
    {InBody(<<Text("a "), Comment,
              Element(n, at, <<Text("b"), Element("i", <<>>, <<Text("c")>>)>>),
              ProcessingInstruction, Text(" d")>>) :
        n \in TagNames, at \in AttrChoices}

\* the labels and leaves of the generated trees
CoreLabels ==
    {<<"p", <<>>>>, <<"h2", <<>>>>, <<"H2", <<>>>>, <<"ul", <<>>>>,
     <<"table", <<>>>>,
     <<"a", <<<<"href", "./Kategorie:Foo">>>>>>, <<"a", <<<<"href", "./Foo">>>>>>,
     <<"span", <<<<"typeof", "mw:Image">>>>>>}
Leaves == {Text("x"), Text("y "), Comment}

RECURSIVE TreesOfSize(_)
RECURSIVE ForestsOfSize(_)
\* the trees of exactly n nodes
TreesOfSize(n) ==
    (IF n = 1 THEN Leaves ELSE {})
    \cup {Element(l[1], l[2], f) : l \in CoreLabels, f \in ForestsOfSize(n - 1)}
\* the sequences of trees of exactly n nodes in all
ForestsOfSize(n) ==
    IF n = 0 THEN {<<>>}
    ELSE UNION {{<<t>> \o f : t \in TreesOfSize(k), f \in ForestsOfSize(n - k)} :
                k \in 1..n}

\* every body of at most MaxNodes nodes
Forests == {InBody(f) : f \in UNION {ForestsOfSize(n) : n \in 0..MaxNodes}}

WhitespaceAlphabet == {" ", "\n", "\t", "a"}

RECURSIVE StringsOfLen(_)
StringsOfLen(n) ==
    IF n = 0 THEN {""}
    ELSE {s \o c : s \in StringsOfLen(n - 1), c \in WhitespaceAlphabet}

\* a body holding one text node, for every text of at most MaxLen characters
TextDocuments ==
    {InBody(<<Text(s)>>) : s \in UNION {StringsOfLen(n) : n \in 0..MaxLen}}

\* markup without exactly one /html/body, and markup that does not parse
TwoBodies ==
    Document(Element("html", <<>>,
        <<Element("body", <<>>, <<Text("x")>>), Element("body", <<>>, <<>>)>>))
NoHtml == Document(Element("body", <<>>, <<Text("x")>>))
Malformed == {EmptyMarkup, Unparseable("<html>"), NoBody, TwoBodies, NoHtml}

FilterInputs ==
    {ScenarioA, HeadingOnly} \cup NameProbes \cup Forests \cup TextDocuments
    \cup Malformed

\* parsing.rs:156-180, with the value of plaintext after line 175
FilterApply ==
    /\ is_some(fxhtml)
    /\ fresult = None
    /\ fresult' = Some(xhtml_to_plain(fxhtml[1]))
    /\ plaintext_raw' =
          IF fresult'[1].ok
          THEN Some(iterate_element(body_nodes(fxhtml[1].parsed.val)[1]))
          ELSE None
    /\ UNCHANGED <<fxhtml, travVars>>

InitFilter ==
    /\ opts = [title |-> None, and_after |-> FALSE, xhtml_output |-> FALSE,
               no_plain_output |-> FALSE]
    /\ source = "closed"
    /\ nesting = <<>>
    /\ delivered = "none"
    /\ dropped_title = None
    /\ element_stack = <<>>
    /\ page_count = 0
    /\ text = ""
    /\ store_text = FALSE
    /\ current_title = None
    /\ keep_going = FALSE
    /\ out_file = <<>>
    /\ renders = <<>>
    /\ wire = <<>>
    /\ status = "finished"
    /\ fxhtml \in {Some(x) : x \in FilterInputs}
    /\ plaintext_raw = None
    /\ fresult = None

NextFilter == FilterApply

SpecFilter == InitFilter /\ [][NextFilter]_vars

-----------------------------------------------------------------------------
(* Properties of the Markup Filter, under SpecFilter.                      *)

FilterDone == is_some(fresult) /\ fresult[1].ok
FilterBody == body_nodes(fxhtml[1].parsed.val)[1]

RECURSIVE SubElements(_)
\* an element and every element below it
SubElements(e) ==
    {e} \cup UNION {SubElements(e.children[i]) :
                    i \in {j \in 1..Len(e.children) : e.children[j].kind = "Element"}}

RECURSIVE AllText(_)
RECURSIVE AllTextFrom(_, _)
AllTextFrom(children, i) ==
    IF i > Len(children) THEN ""
    ELSE AllText(children[i]) \o AllTextFrom(children, i + 1)
\* the text of every text node at or below a node, in document order
AllText(node) ==
    CASE node.kind = "Text" -> node.text
      [] node.kind = "Element" -> AllTextFrom(node.children, 1)
      [] OTHER -> ""

\* what the filter extracts from the children of e before and after child i
ExtractedBefore(e, i) ==
    iterate_element([e EXCEPT !.children = SubSeq(e.children, 1, i - 1)])
ExtractedAfter(e, i) ==
    iterate_element([e EXCEPT !.children = SubSeq(e.children, i + 1, Len(e.children))])
\* what the filter extracts from e; for the body, what the run extracted
Extracted(e) == IF e = FilterBody THEN plaintext_raw[1] ELSE iterate_element(e)

\* the element names the tag policy discards, as the specification lists them
DiscardedNames ==
    {"h0", "h1", "h2", "h3", "h4", "h5", "h6", "h7", "h8", "h9"}
    \cup {"ul", "ol", "dl", "li"}
    \cup {"math", "chem", "timeline", "syntaxhighlight", "hiero", "inputbox",
          "score", "graph", "categorytree"}
    \cup {"sup", "sub", "table"}

\* C7: the filter never descends into a heading, list, non-prose, sup, sub or
\* table element: what it extracts from an element with such a child is what
\* it extracts from the children before it followed by what it extracts from
\* the children after it, and a text child adds exactly its text in between.
TagPolicyCompleteness ==
    FilterDone =>
        \A e \in SubElements(FilterBody) : \A i \in 1..Len(e.children) :
            LET c == e.children[i]
            IN /\ (c.kind = "Element" /\ c.name \in DiscardedNames) =>
                     Extracted(e) = ExtractedBefore(e, i) \o ExtractedAfter(e, i)
               /\ c.kind = "Text" =>
                     Extracted(e) = ExtractedBefore(e, i) \o c.text \o ExtractedAfter(e, i)

\* C7 witness: a discarded element with text below it, between two text
\* siblings whose text is all that was extracted
TagPolicyWitness ==
    /\ FilterDone
    /\ LET cs == FilterBody.children
       IN \E i \in 1..Len(cs) :
            /\ cs[i].kind = "Element" /\ cs[i].name = "table"
            /\ AllText(cs[i]) # ""
            /\ cs[1].kind = "Text" /\ cs[Len(cs)].kind = "Text"
            /\ 1 < i /\ i < Len(cs)
            /\ plaintext_raw[1] = cs[1].text \o cs[Len(cs)].text
            /\ fresult[1].val = "a d"

\* h followed by exactly one digit, on the lower-cased name
LowerCasedHeading(name) ==
    LET l == to_lowercase(name)
    IN Len(l) = 2 /\ CharAt(l, 1) = "h" /\ is_ascii_digit(CharAt(l, 2))

\* C8: the policy of an element is the policy of its lower-cased name, and an
\* element whose lower-cased name is h and one digit is discarded without
\* descending.
LowerCasedPolicy ==
    FilterDone =>
        \A e \in SubElements(FilterBody) : \A i \in 1..Len(e.children) :
            LET c == e.children[i]
            IN c.kind = "Element" =>
                 /\ descends_into(c) = descends_into([c EXCEPT !.name = to_lowercase(c.name)])
                 /\ LowerCasedHeading(c.name) =>
                       Extracted(e) = ExtractedBefore(e, i) \o ExtractedAfter(e, i)

CategoryLink(c) ==
    \E k \in 1..Len(c.attrs) :
        c.attrs[k][1] = "href" /\ starts_with(c.attrs[k][2], "./Kategorie:")

\* C9: an a element adds nothing when it has an href starting with
\* ./Kategorie:, and otherwise what the filter extracts from it (all of its
\* text, when it holds only text nodes); the siblings' text is kept either way.
AnchorPolicy ==
    FilterDone =>
        \A e \in SubElements(FilterBody) : \A i \in 1..Len(e.children) :
            LET c == e.children[i]
            IN (c.kind = "Element" /\ c.name = "a") =>
                 /\ Extracted(e) =
                       ExtractedBefore(e, i)
                       \o (IF CategoryLink(c) THEN "" ELSE iterate_element(c))
                       \o ExtractedAfter(e, i)
                 /\ (\A k \in 1..Len(c.children) : c.children[k].kind = "Text") =>
                       iterate_element(c) = AllText(c)

\* C9 witness: a category link with text below it between two text siblings
\* (Scenario B)
AnchorPolicyWitness ==
    /\ FilterDone
    /\ LET cs == FilterBody.children
       IN \E i \in 1..Len(cs) :
            /\ cs[i].kind = "Element" /\ cs[i].name = "a" /\ CategoryLink(cs[i])
            /\ AllText(cs[i]) # ""
            /\ 1 < i /\ i < Len(cs)
            /\ cs[1].kind = "Text" /\ cs[Len(cs)].kind = "Text"
            /\ plaintext_raw[1] = cs[1].text \o cs[Len(cs)].text
            /\ fresult[1].val = "a d"

Whitespace == {" ", "\t", "\n", "\r", "\f"}

\* C10: normalizing the result again changes nothing, and the result has no
\* two adjacent whitespace characters and no leading or trailing whitespace.
WhitespaceIdempotent ==
    FilterDone =>
        LET r == fresult[1].val
        IN /\ normalize_whitespace(r) = r
           /\ \A i \in 1..(Len(r) - 1) :
                ~(CharAt(r, i) \in Whitespace /\ CharAt(r, i + 1) \in Whitespace)
           /\ Len(r) > 0 =>
                (CharAt(r, 1) \notin Whitespace /\ CharAt(r, Len(r)) \notin Whitespace)

\* C10 witness: text with a leading run of whitespace holding a newline and with
\* trailing whitespace, normalized to a non-empty result
WhitespaceWitness ==
    /\ FilterDone
    /\ LET raw == plaintext_raw[1]
       IN /\ Len(raw) >= 4
          /\ CharAt(raw, 1) \in Whitespace /\ CharAt(raw, 2) = "\n"
          /\ CharAt(raw, Len(raw)) \in Whitespace
          /\ \E i \in 3..(Len(raw) - 1) : CharAt(raw, i) \notin Whitespace
          /\ fresult[1].val # ""
          /\ fresult[1].val # raw

\* the number of body elements that are children of a root element html
BodyCount(root) ==
    IF root.name = "html"
    THEN Cardinality({i \in 1..Len(root.children) :
                        /\ root.children[i].kind = "Element"
                        /\ root.children[i].name = "body"})
    ELSE 0

\* C14: xhtml_to_plain returns a text exactly when the markup parses and has
\* one node at /html/body; markup that does not parse gives the parser's
\* error, and a document with N # 1 nodes at /html/body gives the error
\* "expected single node, got N nodes".
FilterFailure ==
    is_some(fresult) =>
        LET x == fxhtml[1]
            r == fresult[1]
        IN /\ ~x.parsed.ok => r = Err(<<"XmlParsing">>)
           /\ (x.parsed.ok /\ BodyCount(x.parsed.val) # 1)
                => r = Err(<<"ExpectedSingleNode", BodyCount(x.parsed.val)>>)
           /\ r.ok <=> (x.parsed.ok /\ BodyCount(x.parsed.val) = 1)

\* C14 witness: a document with two body elements was refused with N = 2
FilterFailureWitness ==
    /\ fxhtml = Some(TwoBodies)
    /\ fresult = Some(Err(<<"ExpectedSingleNode", 2>>))
    /\ plaintext_raw = None

====
